---- MODULE Spec2Model ----
(***************************************************************************)
(* Funny JSON Explorer: the tree model, the builder, the two drawers and   *)
(* the explorer facade of FunnyJsonExplorer.py / newFunnyJsonExplorer.py.  *)
(*                                                                         *)
(* A Python str is a sequence of one-character tokens, so that len(),      *)
(* concatenation, replace() and indexing are computed and not assumed.     *)
(* Glyphs outside ASCII are written as two-letter tokens:                  *)
(*   "hz" U+2500 horizontal    "vt" U+2502 vertical (tree drawer)          *)
(*   "dr" U+250C top-left     "dl" U+2510 top-right                        *)
(*   "ur" U+2514 bottom-left  "ul" U+2518 bottom-right                     *)
(*   "vr" U+251C tee right    "vl" U+2524 tee left   "uh" U+2534 tee up    *)
(*   "wd" white diamond, "ws" white spade, "bs" black star, "wt" white star*)
(* "|" is the ASCII bar the rectangle drawer uses, " " is a space.         *)
(* A Python dict is the sequence of its (key, value) items in insertion    *)
(* order, with distinct keys.                                              *)
(***************************************************************************)
EXTENDS Integers, Sequences, FiniteSets, TLC

VARIABLES
    module,         \* which source file's FunnyJsonExplorer this explorer is
    icon_factory,   \* FunnyJsonExplorer.icon_factory: "poker" | "star"
    drawer_factory, \* FunnyJsonExplorer.drawer_factory: "tree" | "rectangle"
    shown,          \* the mappings handed to show so far, in call order
    iterator,       \* JSONIterator: [keys, index] over structure
    builder,        \* JSONBuilder.root of the load in progress
    stdout,         \* what was printed: one block of lines per finished show
    frames,         \* the drawer's calls of the last finished show, in call order
    raised,         \* the exception the last operation raised, or "none"
    pc              \* "idle" | "load" | "done"

vars == <<module, icon_factory, drawer_factory, shown, iterator, builder,
          stdout, frames, raised, pc>>

\* ------------------------------------------------------------ bounds
MaxKeys == 2
MaxSubKeys == 2
MaxShows == 2

\* ------------------------------------------------------------ inputs
ROOT == <<"r", "o", "o", "t">>

\* Top-level keys a mapping may use.
KeyPool ==
    << <<"r", "o", "o", "t">>,
       <<"b">>,
       <<"a", "p", "p", "l", "e", "s">> >>

\* Second-level keys a mapping may use.
SubKeyPool ==
    << <<"x">>,
       <<"m", "a", "n", "d", "a", "r", "i", "n">>,
       <<"g", "a", "l", "a">> >>

\* A value that is not a dict (None, a string, a list, ...).
Terminal == [dict |-> FALSE, items |-> <<>>]

Dict(items) == [dict |-> TRUE, items |-> items]

Item(key, value) == [key |-> key, value |-> value]

\* The value under a second-level key: "mandarin" holds a nested mapping
\* (as in the sample input of __main__), every other key holds None.
SubValue(sub_key) ==
    IF sub_key = SubKeyPool[2]
    THEN Dict(<< Item(<<"c">>, Terminal), Item(<<"t", "g">>, Terminal) >>)
    ELSE Terminal

\* Index sequences of length n over 1..m.
RECURSIVE IndexSeqs(_, _)
IndexSeqs(n, m) ==
    IF n = 0 THEN { <<>> }
    ELSE { Append(s, k) : s \in IndexSeqs(n - 1, m), k \in 1..m }

IsIncreasing(s) == \A i \in 1..(Len(s) - 1) : s[i] < s[i + 1]

IsInjective(s) == \A i, j \in 1..Len(s) : i # j => s[i] # s[j]

\* Second-level mappings: up to MaxSubKeys keys of the pool, in pool order.
SubDicts ==
    LET m == Len(SubKeyPool)
    IN  { Dict([i \in 1..Len(s) |-> Item(SubKeyPool[s[i]], SubValue(SubKeyPool[s[i]]))]) :
            s \in { t \in UNION { IndexSeqs(n, m) : n \in 0..MaxSubKeys } : IsIncreasing(t) } }

Values == { Terminal } \cup SubDicts

\* The mappings with the keys of KeyPool that keyseqs indexes and values of values.
StructuresOver(keyseqs, values) ==
    UNION { { [i \in 1..Len(ks) |-> Item(KeyPool[ks[i]], vs[i])] :
                vs \in [1..Len(ks) -> values] } : ks \in keyseqs }

KeySeqs == UNION { IndexSeqs(n, Len(KeyPool)) : n \in 0..MaxKeys }

\* Input mappings: up to MaxKeys distinct keys of the pool in any order,
\* each with a value of Values.
Structures == StructuresOver({ t \in KeySeqs : IsInjective(t) }, Values)

\* The inputs of repeated show calls: the first keys of the pool, each
\* holding a non-dict or the dict of the first MaxSubKeys second-level keys.
RepeatStructures ==
    StructuresOver({ t \in KeySeqs : \A i \in 1..Len(t) : t[i] = i },
                   { Terminal,
                     Dict([i \in 1..MaxSubKeys |->
                             Item(SubKeyPool[((i - 1) % Len(SubKeyPool)) + 1],
                                  SubValue(SubKeyPool[((i - 1) % Len(SubKeyPool)) + 1]))]) })

\* ------------------------------------------------------------ tree model
\* Component.__init__ via Container.__init__: children starts empty.
Container(name, level, icon) ==
    [kind |-> "Container", name |-> name, level |-> level, icon |-> icon,
     children |-> <<>>]

\* Component.__init__ via Leaf: a Leaf has no children attribute.
Leaf(name, level, icon) ==
    [kind |-> "Leaf", name |-> name, level |-> level, icon |-> icon,
     children |-> <<>>]

\* isinstance(component, Container)
IsContainer(component) == component.kind = "Container"

\* add with the new component put first instead of last.
add_front(container, component) ==
    [container EXCEPT !.children = <<component>> \o @]

\* Container.add
add(container, component) ==
    [container EXCEPT !.children = Append(@, component)]

\* ------------------------------------------------------------ icon factories
create_container_icon(factory) ==
    IF factory = "poker" THEN <<"wd">> ELSE <<"bs">>

\* create_leaf_icon with the two families' glyphs exchanged.
create_leaf_icon_other_family(factory) ==
    IF factory = "poker" THEN <<"wt">> ELSE <<"ws">>

create_leaf_icon(factory) ==
    IF factory = "poker" THEN <<"ws">> ELSE <<"wt">>

\* ------------------------------------------------------------ builder
\* JSONBuilder.__init__: the root is Container('root'), level 0, icon ''.
JSONBuilder == Container(ROOT, 0, <<>>)

\* JSONBuilder.add_container followed by load's assignment of container.icon;
\* the new container is the last child of the root.
add_container(root, name, level, icon) ==
    add(root, Container(name, level, icon))

\* JSONBuilder.add_leaf followed by load's assignment of leaf.icon, on the
\* container add_container returned (the last child of the root).
add_leaf(root, name, level, icon) ==
    [root EXCEPT !.children[Len(root.children)] = add(@, Leaf(name, level, icon))]

\* The inner loop of load: for sub_key, sub_value in value.items().
RECURSIVE add_leaves(_, _, _, _)
add_leaves(root, items, i, factory) ==
    IF i > Len(items) THEN root
    ELSE add_leaves(add_leaf(root, items[i].key, 2, create_leaf_icon(factory)),
                    items, i + 1, factory)

\* One pass of load's outer loop body on (key, value).
load_item(root, key, value, factory) ==
    LET with_container == add_container(root, key, 1, create_container_icon(factory))
    IN  IF value.dict
        THEN add_leaves(with_container, value.items, 1, factory)
        ELSE with_container

\* FunnyJsonExplorer.py load: for key, value in structure.items().
RECURSIVE load_from(_, _, _, _)
load_from(root, items, i, factory) ==
    IF i > Len(items) THEN root
    ELSE load_from(load_item(root, items[i].key, items[i].value, factory),
                   items, i + 1, factory)

load(items, factory) == load_from(JSONBuilder, items, 1, factory)

\* ------------------------------------------------------------ iterator
\* JSONIterator.__init__
JSONIterator(items) ==
    [keys |-> [i \in 1..Len(items) |-> items[i].key], index |-> 0]

\* JSONIterator.has_next
has_next(it) == it.index < Len(it.keys)

\* self.structure[key]: the value stored under key.
Lookup(items, key) ==
    items[CHOOSE i \in 1..Len(items) : items[i].key = key].value

\* next with the index advanced before has_next is tested.
next_advance_first(it) ==
    IF has_next(it)
    THEN [it |-> [it EXCEPT !.index = @ + 1], key |-> it.keys[it.index + 1],
          raised |-> "none"]
    ELSE [it |-> [it EXCEPT !.index = @ + 1], key |-> <<>>, raised |-> "StopIteration"]

\* JSONIterator.next: the iterator afterwards, the key returned (keys[index],
\* 0-based in the source) and the exception raised.
next(it) ==
    IF has_next(it)
    THEN [it |-> [it EXCEPT !.index = @ + 1], key |-> it.keys[it.index + 1],
          raised |-> "none"]
    ELSE [it |-> it, key |-> <<>>, raised |-> "StopIteration"]

\* ------------------------------------------------------------ str helpers
\* str.replace(old, new) for one-character old and new.
replace(str, old, new) ==
    [i \in 1..Len(str) |-> IF str[i] = old THEN new ELSE str[i]]

\* ch * n: the empty string when n <= 0.
Times(ch, n) == IF n <= 0 THEN <<>> ELSE [i \in 1..n |-> ch]

Max(a, b) == IF a >= b THEN a ELSE b

\* A drawer call as observed: the node's position in the tree (child indices
\* from the root, 0-based), the prefix and is_last it was called with, and
\* the line it printed.
Frame(path, prefix, is_last, line) ==
    [path |-> path, prefix |-> prefix, is_last |-> is_last, line |-> line]

\* ------------------------------------------------------------ TreeDrawer
RECURSIVE draw_tree(_, _, _, _)
RECURSIVE draw_tree_children(_, _, _, _, _)

\* _draw_tree with the children's prefix extended by the flag the loop has
\* reassigned (the extension moved into the loop).
RECURSIVE draw_tree_prefix_in_loop(_, _, _, _)
RECURSIVE draw_tree_loop_prefix(_, _, _, _, _)
draw_tree_prefix_in_loop(component, prefix, is_last, path) ==
    LET connector == IF is_last THEN <<"ur", "hz">> ELSE <<"vr", "hz">>
        line == prefix \o connector \o <<" ">> \o component.icon \o <<" ">>
                    \o component.name
    IN  << Frame(path, prefix, is_last, line) >>
        \o (IF IsContainer(component)
            THEN draw_tree_loop_prefix(component, prefix, is_last, 0, path)
            ELSE <<>>)

draw_tree_loop_prefix(component, prefix, is_last, i, path) ==
    IF i >= Len(component.children) THEN <<>>
    ELSE LET child_prefix == prefix \o (IF is_last THEN <<" ", " ", " ">>
                                                   ELSE <<"vt", " ", " ">>)
             is_last2 == (i = Len(component.children) - 1)
         IN  draw_tree_prefix_in_loop(component.children[i + 1], child_prefix, is_last2,
                                      Append(path, i))
             \o draw_tree_loop_prefix(component, prefix, is_last2, i + 1, path)

\* TreeDrawer._draw_tree
draw_tree(component, prefix, is_last, path) ==
    LET connector == IF is_last THEN <<"ur", "hz">> ELSE <<"vr", "hz">>
        line == prefix \o connector \o <<" ">> \o component.icon \o <<" ">>
                    \o component.name
        prefix2 == prefix \o (IF is_last THEN <<" ", " ", " ">>
                                         ELSE <<"vt", " ", " ">>)
    IN  << Frame(path, prefix, is_last, line) >>
        \o (IF IsContainer(component)
            THEN draw_tree_children(component, prefix2, is_last, 0, path)
            ELSE <<>>)

\* The loop of _draw_tree visiting the children last to first.
RECURSIVE draw_tree_children_reversed(_, _, _, _, _)
draw_tree_children_reversed(component, prefix, is_last, i, path) ==
    IF i >= Len(component.children) THEN <<>>
    ELSE LET is_last2 == (i = Len(component.children) - 1)
         IN  draw_tree_children_reversed(component, prefix, is_last2, i + 1, path)
             \o draw_tree(component.children[i + 1], prefix, is_last2, Append(path, i))

\* The for loop of _draw_tree from child i on; is_last is the local the loop
\* reassigns.
draw_tree_children(component, prefix, is_last, i, path) ==
    IF i >= Len(component.children) THEN <<>>
    ELSE LET is_last2 == (i = Len(component.children) - 1)
         IN  draw_tree(component.children[i + 1], prefix, is_last2, Append(path, i))
             \o draw_tree_children(component, prefix, is_last2, i + 1, path)

\* TreeDrawer.draw
TreeDrawer_draw(root) == draw_tree(root, <<>>, TRUE, <<>>)

\* ------------------------------------------------------------ RectangleDrawer
RECURSIVE calculate_width(_, _)
RECURSIVE calculate_width_children(_, _, _, _)

\* RectangleDrawer._calculate_width
calculate_width(component, level) ==
    LET max_width == Len(component.icon \o component.name) + 2
    IN  (IF IsContainer(component)
         THEN calculate_width_children(component, level, 1, max_width)
         ELSE max_width) + 10

\* The for loop of _calculate_width from the i-th child on.
calculate_width_children(component, level, i, max_width) ==
    IF i > Len(component.children) THEN max_width
    ELSE calculate_width_children(component, level, i + 1,
            Max(max_width, calculate_width(component.children[i], level + 1)))

RECURSIVE draw_rectangle(_, _, _, _, _, _)
RECURSIVE draw_rectangle_children(_, _, _, _, _, _)

\* RectangleDrawer._draw_rectangle
draw_rectangle(component, width, prefix, is_last, is_first, path) ==
    LET closing == is_last /\ (~IsContainer(component) \/ Len(component.children) = 0)
        line_end == IF closing THEN "ul" ELSE IF is_first THEN "dl" ELSE "vl"
        line_beg == IF closing THEN "ur" ELSE IF is_first THEN "dr" ELSE "|"
        prefix2 == IF line_beg = "ur"
                   THEN replace(replace(replace(prefix, " ", "hz"), "|", "hz"), "vr", "uh")
                   ELSE prefix
        line == IF component.name = ROOT
                THEN <<line_beg>> \o prefix2 \o <<"hz", " ">> \o component.name
                       \o component.icon \o <<" ">>
                       \o Times("hz", width - Len(component.name) - 3 - Len(prefix2))
                       \o <<line_end>>
                ELSE <<line_beg>> \o prefix2 \o <<"hz", " ">> \o component.name
                       \o component.icon \o <<" ">>
                       \o Times("hz", width - Len(component.name) - 4 - Len(prefix2)
                                        - Len(component.icon))
                       \o <<line_end>>
    IN  << Frame(path, prefix, is_last, line) >>
        \o (IF IsContainer(component)
            THEN draw_rectangle_children(component, width, prefix2, is_last, 0, path)
            ELSE <<>>)

\* The for loop of _draw_rectangle from child i on; is_last is the local the
\* loop reassigns and passes on.
draw_rectangle_children(component, width, prefix, is_last, i, path) ==
    IF i >= Len(component.children) THEN <<>>
    ELSE LET child_prefix ==
                 IF prefix = <<>> \/ prefix[Len(prefix)] # "vr"
                 THEN prefix \o <<" ", " ", "vr">>
                 ELSE <<" ", " ", "|">> \o prefix
             is_last2 ==
                 IF i = Len(component.children) - 1 /\ component.name = ROOT THEN TRUE
                 ELSE IF i = Len(component.children) - 1 THEN is_last
                 ELSE FALSE
         IN  draw_rectangle(component.children[i + 1], width, child_prefix, is_last2,
                            FALSE, Append(path, i))
             \o draw_rectangle_children(component, width, prefix, is_last2, i + 1, path)

\* RectangleDrawer.draw
RectangleDrawer_draw(root) ==
    draw_rectangle(root, calculate_width(root, 0), <<>>, FALSE, TRUE, <<>>)

\* DrawerFactory.create_drawer().draw(root)
draw(factory, root) ==
    IF factory = "tree" THEN TreeDrawer_draw(root) ELSE RectangleDrawer_draw(root)

Lines(fs) == [i \in 1..Len(fs) |-> fs[i].line]

\* ------------------------------------------------------------ explorer
NoIterator == [keys |-> <<>>, index |-> 0]

\* The mapping of the running / last show call.
structure == shown[Len(shown)]

Init ==
    /\ module \in {"FunnyJsonExplorer", "newFunnyJsonExplorer"}
    /\ icon_factory \in {"poker", "star"}
    /\ drawer_factory \in {"tree", "rectangle"}
    /\ shown = <<>>
    /\ iterator = NoIterator
    /\ builder = JSONBuilder
    /\ stdout = <<>>
    /\ frames = <<>>
    /\ raised = "none"
    /\ pc = "idle"

\* show with the builder kept from the previous call instead of a new one.
show_keep_builder(s) ==
    /\ module = "newFunnyJsonExplorer"
    /\ pc \in {"idle", "done"}
    /\ Len(shown) < MaxShows
    /\ shown' = Append(shown, s)
    /\ iterator' = JSONIterator(s)
    /\ raised' = "none"
    /\ pc' = "load"
    /\ UNCHANGED <<module, icon_factory, drawer_factory, builder, stdout, frames>>

\* newFunnyJsonExplorer.py show, up to the first test of load's while loop:
\* a JSONIterator over the mapping and a new JSONBuilder.
show(s) ==
    /\ module = "newFunnyJsonExplorer"
    /\ pc \in {"idle", "done"}
    /\ Len(shown) < MaxShows
    /\ shown' = Append(shown, s)
    /\ iterator' = JSONIterator(s)
    /\ builder' = JSONBuilder
    /\ raised' = "none"
    /\ pc' = "load"
    /\ UNCHANGED <<module, icon_factory, drawer_factory, stdout, frames>>

\* One pass of load's while loop: iterator.next(), add_container, the leaves.
load_next ==
    /\ pc = "load"
    /\ has_next(iterator)
    /\ LET n == next(iterator)
       IN  /\ iterator' = n.it
           /\ builder' = load_item(builder, n.key, Lookup(structure, n.key), icon_factory)
    /\ UNCHANGED <<module, icon_factory, drawer_factory, shown, stdout, frames,
                   raised, pc>>

\* load returns builder.get_result() and show draws it.
load_return ==
    /\ pc = "load"
    /\ ~has_next(iterator)
    /\ frames' = draw(drawer_factory, builder)
    /\ stdout' = Append(stdout, Lines(frames'))
    /\ pc' = "done"
    /\ UNCHANGED <<module, icon_factory, drawer_factory, shown, iterator, builder,
                   raised>>

\* A caller's iterator.next() after show returned: the iterator is exhausted.
next_exhausted ==
    /\ module = "newFunnyJsonExplorer"
    /\ pc = "done"
    /\ raised = "none"
    /\ LET n == next(iterator)
       IN  /\ iterator' = n.it
           /\ raised' = n.raised
    /\ UNCHANGED <<module, icon_factory, drawer_factory, shown, builder, stdout,
                   frames, pc>>

\* FunnyJsonExplorer.py show: load over structure.items(), then draw.
show_items(s) ==
    /\ module = "FunnyJsonExplorer"
    /\ pc \in {"idle", "done"}
    /\ Len(shown) < MaxShows
    /\ shown' = Append(shown, s)
    /\ builder' = load(s, icon_factory)
    /\ frames' = draw(drawer_factory, builder')
    /\ stdout' = Append(stdout, Lines(frames'))
    /\ pc' = "done"
    /\ UNCHANGED <<module, icon_factory, drawer_factory, iterator, raised>>

\* The first show call on an explorer, with any input mapping.
Show == \E s \in Structures : shown = <<>> /\ show(s)

ShowItems == \E s \in Structures : shown = <<>> /\ show_items(s)

Next == Show \/ load_next \/ load_return \/ next_exhausted \/ ShowItems

Spec == Init /\ [][Next]_vars

\* Up to MaxShows show calls on one explorer.
Reshow == \E s \in RepeatStructures : show(s)

ReshowItems == \E s \in RepeatStructures : show_items(s)

NextRepeat == Reshow \/ load_next \/ load_return \/ next_exhausted \/ ReshowItems

SpecRepeat == Init /\ [][NextRepeat]_vars

\* ------------------------------------------------------------ observations
Done == pc = "done"

\* The block of lines the last finished show printed.
block == stdout[Len(stdout)]

\* The tree load returned to the last finished show.
root == builder

Last(str) == str[Len(str)]

\* Number of nodes the mapping s describes: the root, one container per key,
\* one leaf per key of each dict value.
RECURSIVE LeafCount(_, _)
LeafCount(s, i) ==
    IF i > Len(s) THEN 0
    ELSE (IF s[i].value.dict THEN Len(s[i].value.items) ELSE 0) + LeafCount(s, i + 1)

NodeCount(s) == 1 + Len(s) + LeafCount(s, 1)

\* The nodes the mapping s describes in depth-first pre-order, each as its
\* position (0-based child indices from the root) and its name.
RECURSIVE Preorder(_, _)
Preorder(s, i) ==
    IF i > Len(s) THEN <<>>
    ELSE << [path |-> <<i - 1>>, name |-> s[i].key] >>
         \o (IF s[i].value.dict
             THEN [j \in 1..Len(s[i].value.items) |->
                     [path |-> <<i - 1, j - 1>>, name |-> s[i].value.items[j].key]]
             ELSE <<>>)
         \o Preorder(s, i + 1)

Nodes(s) == << [path |-> <<>>, name |-> ROOT] >> \o Preorder(s, 1)

\* Number of children of the node at path, by the mapping s.
ChildCount(s, path) ==
    IF path = <<>> THEN Len(s)
    ELSE IF Len(path) = 1 /\ s[path[1] + 1].value.dict
         THEN Len(s[path[1] + 1].value.items)
         ELSE 0

\* Is the node at path (not the root) the last child of its parent?
IsLastChild(s, path) ==
    Last(path) = ChildCount(s, SubSeq(path, 1, Len(path) - 1)) - 1

\* The part of a line after its last space.
AfterLastSpace(line) ==
    LET spaces == { i \in 1..Len(line) : line[i] = " " }
        k == IF spaces = {} THEN 0 ELSE CHOOSE i \in spaces : \A j \in spaces : j <= i
    IN  SubSeq(line, k + 1, Len(line))

\* Every node of the tree under component, component included.
RECURSIVE TreeNodes(_)
TreeNodes(component) ==
    { component } \cup UNION { TreeNodes(component.children[i]) :
                                 i \in 1..Len(component.children) }

SetMax(S) == CHOOSE m \in S : \A n \in S : n <= m

\* The prefix the Tree Renderer gives the node at path: three columns per
\* ancestor, blank under an ancestor that is a last child (or the root), a
\* vertical bar and two blanks under any other.
TreePrefix(s, path) ==
    IF path = <<>> THEN <<>>
    ELSE IF Len(path) = 1 THEN <<" ", " ", " ">>
    ELSE <<" ", " ", " ">>
         \o (IF IsLastChild(s, <<path[1]>>) THEN <<" ", " ", " ">>
                                           ELSE <<"vt", " ", " ">>)

\* The drawer call made on the node at path.
FrameAt(path) == frames[CHOOSE i \in 1..Len(frames) : frames[i].path = path]

Rect == drawer_factory = "rectangle"

Tree == drawer_factory = "tree"

\* ------------------------------------------------------------ claims

\* C1: every line RectangleDrawer.draw prints has exactly width characters,
\* width being what _calculate_width returns for the tree.
C1_LinesHaveWidth ==
    (Done /\ Rect) =>
        \A i \in 1..Len(block) : Len(block[i]) = calculate_width(root, 0)

\* C2: for a mapping with at least one key the rectangle is a closed frame:
\* the first line runs from the top-left to the top-right corner and the last
\* line from the bottom-left to the bottom-right corner.
C2_ClosedFrame ==
    (Done /\ Rect /\ Len(structure) >= 1) =>
        /\ block[1][1] = "dr"
        /\ Last(block[1]) = "dl"
        /\ Last(block)[1] = "ur"
        /\ Last(Last(block)) = "ul"

\* C3: the frame width is 10 plus the widest label len(icon) + len(name) + 2
\* over all nodes, the margin added once.
C3_WidthIsMarginPlusWidest ==
    (Done /\ Rect) =>
        calculate_width(root, 0)
            = 10 + SetMax({ Len(n.icon) + Len(n.name) + 2 : n \in TreeNodes(root) })

\* C4: TreeDrawer.draw prints one line per node, in depth-first pre-order:
\* the root, then each key in insertion order followed by its leaves in
\* insertion order.
C4_TreeLinesPreorder ==
    (Done /\ Tree) =>
        /\ Len(block) = NodeCount(structure)
        /\ Len(frames) = Len(block)
        /\ \A i \in 1..Len(block) :
              /\ i <= Len(Nodes(structure))
              /\ AfterLastSpace(block[i]) = Nodes(structure)[i].name
              /\ frames[i].path = Nodes(structure)[i].path

C4_Witness ==
    /\ Done /\ Tree
    /\ Len(structure) = 2
    /\ structure[1].value.dict /\ Len(structure[1].value.items) = 2
    /\ structure[2].value.dict /\ Len(structure[2].value.items) = 1
    /\ Len(block) = 6

\* C5: a node's line has the connector of a last child exactly when the node
\* is the root or the last child of its parent, and the other connector
\* otherwise; the prefix of every child is the parent's prefix extended by the
\* parent's own flag, whatever the loop did to is_last for earlier siblings.
C5_Connectors ==
    (Done /\ Tree) =>
        /\ Len(frames) = Len(Nodes(structure))
        /\ \A i \in 1..Len(frames) :
              LET path == Nodes(structure)[i].path
                  f == frames[i]
                  d == Len(path)
                  last == path = <<>> \/ IsLastChild(structure, path)
              IN  /\ f.prefix = TreePrefix(structure, path)
                  /\ SubSeq(f.line, 1, 3 * d) = TreePrefix(structure, path)
                  /\ SubSeq(f.line, 3 * d + 1, 3 * d + 2)
                        = (IF last THEN <<"ur", "hz">> ELSE <<"vr", "hz">>)
                  /\ f.is_last = last

C5_Witness ==
    /\ Done /\ Tree
    /\ Len(structure) = 2
    /\ structure[1].value.dict /\ Len(structure[1].value.items) = 2
    /\ structure[2].value.dict /\ Len(structure[2].value.items) = 2
    /\ SubSeq(block[3], 1, 8) = <<" ", " ", " ", "vt", " ", " ", "vr", "hz">>
    /\ SubSeq(block[4], 1, 8) = <<" ", " ", " ", "vt", " ", " ", "ur", "hz">>

\* The glyph of each family for each variant (the table of the icon families).
Glyph(family, kind) ==
    IF family = "poker"
    THEN (IF kind = "Container" THEN <<"wd">> ELSE <<"ws">>)
    ELSE (IF kind = "Container" THEN <<"bs">> ELSE <<"wt">>)

C7_LoadShape ==
    Done =>
        /\ IsContainer(root) /\ root.name = ROOT /\ root.level = 0
        /\ Len(root.children) = Len(structure)
        /\ \A i \in 1..Len(root.children) :
              LET c == root.children[i]
                  v == structure[i].value
              IN  /\ IsContainer(c) /\ c.name = structure[i].key /\ c.level = 1
                  /\ Len(c.children) = (IF v.dict THEN Len(v.items) ELSE 0)
                  /\ \A j \in 1..Len(c.children) :
                        /\ ~IsContainer(c.children[j])
                        /\ c.children[j].name = v.items[j].key
                        /\ c.children[j].level = 2
                        /\ c.children[j].children = <<>>
        /\ \A n \in TreeNodes(root) : n.level <= 2

C7_Witness ==
    /\ Done
    /\ Len(structure) = 2
    /\ ~structure[1].value.dict
    /\ structure[2].value.dict
    /\ Len(structure[2].value.items) = 2
    /\ structure[2].value.items[2].value.dict
    /\ Len(root.children[1].children) = 0
    /\ Len(root.children[2].children) = 2

\* C8: over any sequence of show calls each call prints the block that its
\* own mapping, the icon family and the renderer determine, so two calls
\* with the same mapping print the same block.
C8_ShowIndependent ==
    Done =>
        /\ Len(stdout) = Len(shown)
        /\ \A i \in 1..Len(shown) :
              stdout[i] = Lines(draw(drawer_factory, load(shown[i], icon_factory)))
        /\ \A i, j \in 1..Len(shown) : shown[i] = shown[j] => stdout[i] = stdout[j]

C8_Witness ==
    /\ Done
    /\ module = "newFunnyJsonExplorer"
    /\ Len(shown) = 2
    /\ shown[1] = shown[2]
    /\ Len(shown[2]) = 2
    /\ Len(stdout) = 2
    /\ Len(stdout[2]) >= 5

\* C9: _draw_rectangle passes is_last to the children of the level-0 root as
\* true for the last and false for the others, and to the children of any
\* other container as the container's own is_last for the last child and
\* false for the others.
C9_IsLastPropagation ==
    (Done /\ Rect) =>
        \A i \in 1..Len(frames) :
            LET f == frames[i]
                parent == SubSeq(f.path, 1, Len(f.path) - 1)
            IN  f.path # <<>> =>
                    f.is_last = (IF Len(f.path) = 1
                                 THEN IsLastChild(structure, f.path)
                                 ELSE IsLastChild(structure, f.path)
                                        /\ FrameAt(parent).is_last)

\* C10: driven by JSONIterator, load visits every key once in insertion
\* order, index growing by one per next, and builds the tree that
\* FunnyJsonExplorer.py's load builds from structure.items(); next on the
\* exhausted iterator raises StopIteration and leaves index where it was.
C10_IteratorLoad ==
    (module = "newFunnyJsonExplorer" /\ pc # "idle") =>
        /\ iterator.keys = [i \in 1..Len(structure) |-> structure[i].key]
        /\ iterator.index \in 0..Len(iterator.keys)
        /\ Len(builder.children) = iterator.index
        /\ builder = load(SubSeq(structure, 1, iterator.index), icon_factory)
        /\ Done => (~has_next(iterator) /\ builder = load(structure, icon_factory))
        /\ raised \in {"none", "StopIteration"}
        /\ raised = "StopIteration" => (Done /\ iterator.index = Len(iterator.keys))

C10_Witness ==
    /\ module = "newFunnyJsonExplorer"
    /\ Done
    /\ raised = "StopIteration"
    /\ Len(structure) = 2
    /\ iterator.index = 2
    /\ structure[2].value.dict
    /\ Len(builder.children[2].children) = 2

====
